---- MODULE Spec2Model ----
(***************************************************************************)
(* A model of bitcoin_scraper.py: the fetch / retry / parse / persist      *)
(* pipeline of BitcoinPrivateKeyScraper.scrape_database.                    *)
(*                                                                         *)
(* Texts whose characters matter (response bodies, the cells of a row,     *)
(* the cells of the CSV file) are sequences of one-character strings.      *)
(* URLs, which the code only joins and copies, are strings.                *)
(***************************************************************************)
EXTENDS Integers, Sequences, FiniteSets, TLC

(***************************************************************************)
(* Program constants                                                       *)
(***************************************************************************)
RETRY_LIMIT == 5
SAVE_INTERVAL == 3
TEST_MODE_PAGES == 2
EMPTY_LIMIT == 3
MIN_COLS == 5
ADDR_MIN == 25
ADDR_MAX == 90
INT64_DIGITS == 18

\* lines 36-42: five blank entries, to be filled in by the user
PROXY_LIST == <<"", "", "", "", "">>

BASE_URL == "https://privatekeyfinder.io/private-keys/bitcoin/"
BASE_ORIGIN == "https://privatekeyfinder.io"

(***************************************************************************)
(* Bounds of the model                                                     *)
(***************************************************************************)
\* the page counter is unbounded when no limit stops the run: pages beyond
\* MaxPage are not explored
MaxPage == 4
\* the page-count limits tried: 0..MaxLimit, and no limit
MaxLimit == 3
\* rows a previous run left in the persistent file: 0..MaxExisting
MaxExisting == 1
\* rows of the files that are searched: 0..MaxSearchRows
MaxSearchRows == 2

\* max_pages=None (argparse default)
None == -1
\* _request_with_retry returning None, and "no response yet"
NoResponse == "None"

(***************************************************************************)
(* Text helpers                                                            *)
(***************************************************************************)
UpperAZ == <<"A","B","C","D","E","F","G","H","I","J","K","L","M",
             "N","O","P","Q","R","S","T","U","V","W","X","Y","Z">>
LowerAZ == <<"a","b","c","d","e","f","g","h","i","j","k","l","m",
             "n","o","p","q","r","s","t","u","v","w","x","y","z">>
Digits == {"0","1","2","3","4","5","6","7","8","9"}

Range(s) == {s[i] : i \in 1..Len(s)}

RECURSIVE Rep(_, _)
Rep(c, n) == IF n = 0 THEN <<>> ELSE <<c>> \o Rep(c, n - 1)

\* str.lower() on one character, then on a text
LowerChar(c) ==
    IF c \in Range(UpperAZ)
    THEN LowerAZ[CHOOSE i \in 1..Len(UpperAZ) : UpperAZ[i] = c]
    ELSE c

\* a mutant of Lower: the text is compared as it is
LowerIdentity(s) == s

Lower(s) == [i \in 1..Len(s) |-> LowerChar(s[i])]

\* Python's "needle in hay" on texts
Contains(hay, needle) ==
    \E i \in 0..(Len(hay) - Len(needle)) :
        SubSeq(hay, i + 1, i + Len(needle)) = needle

\* str.strip(): leading and trailing blanks removed
RECURSIVE LStrip(_)
LStrip(s) == IF s # <<>> /\ Head(s) = " " THEN LStrip(Tail(s)) ELSE s
RECURSIVE RStrip(_)
RStrip(s) ==
    IF s # <<>> /\ s[Len(s)] = " " THEN RStrip(SubSeq(s, 1, Len(s) - 1)) ELSE s
Strip(s) == RStrip(LStrip(s))

(***************************************************************************)
(* The address pattern  ^(bc1|[13])[a-zA-HJ-NP-Z0-9]{25,90}$               *)
(***************************************************************************)
AddrClass == (Range(LowerAZ) \cup Range(UpperAZ) \cup Digits) \ {"I", "O"}

\* the text left after the prefix (bc1|[13]), or <<"!">> when no prefix matches
\* ("!" is outside AddrClass, so the match fails)
AfterPrefix(a) ==
    IF Len(a) >= 3 /\ SubSeq(a, 1, 3) = <<"b","c","1">> THEN SubSeq(a, 4, Len(a))
    ELSE IF Len(a) >= 1 /\ a[1] \in {"1", "3"} THEN Tail(a)
    ELSE <<"!">>

\* a mutant of MatchAddress: every address is accepted
MatchAnything(a) == TRUE

MatchAddress(a) ==
    LET body == AfterPrefix(a)
    IN  /\ Len(body) >= ADDR_MIN
        /\ Len(body) <= ADDR_MAX
        /\ \A i \in 1..Len(body) : body[i] \in AddrClass

(***************************************************************************)
(* _request_with_retry: classification of a completed response             *)
(***************************************************************************)
BlockingIndicators ==
    { <<"c","l","o","u","d","f","l","a","r","e">>,
      <<"a","c","c","e","s","s"," ","d","e","n","i","e","d">>,
      <<"c","a","p","t","c","h","a">>,
      <<"4","0","3"," ","f","o","r","b","i","d","d","e","n">>,
      <<"b","l","o","c","k","e","d">>,
      <<"s","e","c","u","r","i","t","y"," ","c","h","e","c","k">> }

TableMarker == <<"t","a","b","l","e"," ","t","a","b","l","e","-","s","t","r","i","p","e","d">>

\* line 120: any(indicator in response.text.lower() ...)
IsBlocked(text) == \E ind \in BlockingIndicators : Contains(Lower(text), ind)

\* line 123: "table table-striped" not in response.text
HasMarker(text) == Contains(text, TableMarker)

\* a mutant of Accepts: the marker is not looked for
AcceptsUnblocked(text) == ~IsBlocked(text)

\* lines 120-126: the response is returned
Accepts(text) == ~IsBlocked(text) /\ HasMarker(text)

(***************************************************************************)
(* Page fixtures: table cells, rows and response bodies                    *)
(***************************************************************************)
NoLink == [present |-> FALSE, href |-> FALSE, kind |-> "", path |-> ""]
Cell(t) == [text |-> t, a |-> NoLink]
LinkCell(kind, path) ==
    [text |-> <<"D","e","t","a","i","l","s">>, a |-> [present |-> TRUE, href |-> TRUE, kind |-> kind, path |-> path]]
\* <a> without an href attribute
BareAnchorCell ==
    [text |-> <<"D","e","t","a","i","l","s">>, a |-> [present |-> TRUE, href |-> FALSE, kind |-> "", path |-> ""]]

\* valid addresses: the shortest legacy form, a bc1 form, the longest form
AddrLegacy == <<"1">> \o Rep("a", ADDR_MIN)
AddrSegwit == <<"b","c","1">> \o Rep("q", ADDR_MIN + 1)
AddrLongest == <<"3">> \o Rep("Z", ADDR_MAX)
\* invalid addresses
AddrTooShort == <<"1">> \o Rep("a", ADDR_MIN - 1)
AddrTooLong == <<"3">> \o Rep("Z", ADDR_MAX + 1)
AddrBadChar == <<"1">> \o Rep("a", ADDR_MIN) \o <<"O">>
AddrBadPrefix == <<"2">> \o Rep("a", ADDR_MIN)
AddrUpperPrefix == <<"B","C","1">> \o Rep("q", ADDR_MIN + 1)

Balance0 == <<"0">>
BalanceNA == <<"n","/","a">>
KeyA == <<"K","x","7">>
KeyB == <<"5","J","w">>

HeaderRow == <<>>
RowA == << Cell(<<"1">>), Cell(<<" ">> \o AddrLegacy \o <<" ">>), Cell(Balance0),
           Cell(KeyA), LinkCell("root", "/private-key/bitcoin/1") >>
RowB == << Cell(<<"0","2">>), Cell(AddrSegwit), Cell(BalanceNA), Cell(KeyB), Cell(<<>>) >>
RowC == << Cell(<<"3">>), Cell(AddrLongest), Cell(Balance0), Cell(KeyA),
           LinkCell("abs", "https://example.org/k/3"), Cell(<<>>) >>
RowShort == << Cell(<<"4">>), Cell(AddrLegacy), Cell(Balance0), Cell(KeyA) >>
RowTooShort == << Cell(<<"5">>), Cell(AddrTooShort), Cell(Balance0), Cell(KeyA), Cell(<<>>) >>
RowTooLong == << Cell(<<"6">>), Cell(AddrTooLong), Cell(Balance0), Cell(KeyA), Cell(<<>>) >>
RowBadChar == << Cell(<<"7">>), Cell(AddrBadChar), Cell(Balance0), Cell(KeyA),
                 LinkCell("rel", "k/7") >>
RowBadPrefix == << Cell(<<"8">>), Cell(AddrBadPrefix), Cell(Balance0), Cell(KeyA), Cell(<<>>) >>
RowUpperPrefix == << Cell(<<"9">>), Cell(AddrUpperPrefix), Cell(Balance0), Cell(KeyA), Cell(<<>>) >>
RowEmptyAddr == << Cell(<<"1","0">>), Cell(<<>>), Cell(Balance0), Cell(KeyA), Cell(<<>>) >>
RowBareAnchor == << Cell(<<"1","1">>), Cell(AddrLegacy), Cell(Balance0), Cell(KeyA),
                    BareAnchorCell >>

TextTable == <<"<","t","a","b","l","e"," ","c","l","a","s","s","=">> \o TableMarker \o <<">">>
TextAltClass == <<"<","t","a","b","l","e"," ","c","l","a","s","s","=","t","a","b","l","e","-","s","t","r","i","p","e","d"," ","t","a","b","l","e",">">>
TextDiv == <<"<","d","i","v"," ","c","l","a","s","s","=">> \o TableMarker \o <<">">>
TextDrift == <<"<","t","a","b","l","e"," ","c","l","a","s","s","=","g","r","i","d",">">>
TextDenied == <<"<","h","1",">","A","c","c","e","s","s"," ","D","e","n","i","e","d","<","/","h","1",">">> \o TextTable
TextCaptcha == TextTable \o <<"s","o","l","v","e"," ","t","h","e"," ","c","a","p","t","c","h","a">>

\* A response body: its text (what the fetcher's substring tests see), whether
\* BeautifulSoup finds a <table> of class table-striped, the table's <tr>
\* elements, and whether an <a rel="next"> is present.
Body(text, table, trs, next) == [text |-> text, table |-> table, trs |-> trs, next |-> next]

Bodies ==
    [ full      |-> Body(TextTable, TRUE,
                         <<HeaderRow, RowA, RowBadPrefix, RowShort, RowB, RowA>>, TRUE),
      last      |-> Body(TextTable, TRUE, <<HeaderRow, RowTooShort, RowC>>, FALSE),
      empty     |-> Body(TextTable, TRUE,
                         <<HeaderRow, RowTooLong, RowBadChar, RowUpperPrefix, RowEmptyAddr>>, TRUE),
      empty_end |-> Body(TextTable, TRUE, <<HeaderRow>>, FALSE),
      div_only  |-> Body(TextDiv, FALSE, <<>>, TRUE),
      bad_link  |-> Body(TextTable, TRUE, <<HeaderRow, RowA, RowBareAnchor, RowB>>, TRUE),
      drift     |-> Body(TextDrift, FALSE, <<>>, TRUE),
      alt_class |-> Body(TextAltClass, TRUE, <<HeaderRow, RowA>>, TRUE),
      denied    |-> Body(TextDenied, TRUE, <<HeaderRow, RowA>>, TRUE),
      captcha   |-> Body(TextCaptcha, TRUE, <<HeaderRow, RowA>>, TRUE) ]

BodyIds == DOMAIN Bodies

\* the bodies _request_with_retry returns
AcceptedBodies == {b \in BodyIds : Accepts(Bodies[b].text)}

(***************************************************************************)
(* _parse_page                                                             *)
(***************************************************************************)
\* urljoin(BASE_URL, href) for the three shapes of href
UrlJoin(base, a) ==
    CASE a.kind = "abs" -> a.path
      [] a.kind = "root" -> BASE_ORIGIN \o a.path
      [] OTHER -> base \o a.path

\* line 157: details_link['href'] on an anchor without href raises KeyError
RowRaises(row) == Len(row) >= MIN_COLS /\ row[5].a.present /\ ~row[5].a.href

\* lines 165-172
MakeRecord(row, now) ==
    [ index       |-> Strip(row[1].text),
      address     |-> Strip(row[2].text),
      balance     |-> Strip(row[3].text),
      private_key |-> Strip(row[4].text),
      details_url |-> IF row[5].a.present THEN UrlJoin(BASE_URL, row[5].a) ELSE "",
      timestamp   |-> now ]

\* a mutant of KeepsRow: the address is not validated
KeepsRowUnvalidated(row) == Len(row) >= MIN_COLS

\* lines 153-163: the row yields a record
KeepsRow(row) == Len(row) >= MIN_COLS /\ MatchAddress(Strip(row[2].text))

\* lines 151-173: the loop over the rows
RECURSIVE ParseRows(_, _)
ParseRows(rows, now) ==
    IF rows = <<>> THEN <<>>
    ELSE IF KeepsRow(Head(rows))
         THEN <<MakeRecord(Head(rows), now)>> \o ParseRows(Tail(rows), now)
         ELSE ParseRows(Tail(rows), now)

\* line 145: table.find_all('tr')[1:]
DataRows(b) == IF b.trs = <<>> THEN <<>> ELSE Tail(b.trs)

\* lines 153-162: the number of data rows of body b with at least five cells
\* and an address the pattern accepts
ValidRowCount(b) ==
    Cardinality({i \in 1..Len(DataRows(b)) :
                    /\ Len(DataRows(b)[i]) >= MIN_COLS
                    /\ MatchAddress(Strip(DataRows(b)[i][2].text))})

\* the page raises inside _parse_page
ParseRaises(b) == b.table /\ \E i \in 1..Len(DataRows(b)) : RowRaises(DataRows(b)[i])

\* lines 138-175: the records of a page that parses
ParsePage(b, now) == IF ~b.table THEN <<>> ELSE ParseRows(DataRows(b), now)

\* _parse_page applied to every body at every page number, the bodies it
\* raises on, and the valid rows of every body: computed once
PageRecords == [b \in BodyIds |-> [p \in 1..MaxPage |-> ParsePage(Bodies[b], p)]]
RaisingBodies == {b \in BodyIds : ParseRaises(Bodies[b])}
ValidRowCounts == [b \in BodyIds |-> ValidRowCount(Bodies[b])]

(***************************************************************************)
(* The persistent file, pd.read_csv and DataFrame.to_csv                   *)
(***************************************************************************)
\* no file; a file of a header line and rows; a file of zero bytes
NoFile == [exists |-> FALSE, header |-> FALSE, rows |-> <<>>]
DataFile(rows) == [exists |-> TRUE, header |-> TRUE, rows |-> rows]
ZeroByteFile == [exists |-> TRUE, header |-> FALSE, rows |-> <<>>]

\* read_csv's default NA markers (the empty cell and these)
NaTexts ==
    { <<>>, <<"N","A">>, <<"N","/","A">>, <<"n","/","a">>,
      <<"n","a","n">>, <<"N","a","N">>, <<"n","u","l","l">>,
      <<"N","U","L","L">>, <<"N","o","n","e">>, <<"#","N","/","A">>,
      <<"<","N","A",">">> }

IsNA(t) == t \in NaTexts
IsIntText(t) ==
    /\ t # <<>>
    /\ Len(t) <= INT64_DIGITS
    /\ \A i \in 1..Len(t) : t[i] \in Digits
IsFloatText(t) ==
    /\ Len(t) >= 3
    /\ SubSeq(t, Len(t) - 1, Len(t)) = <<".", "0">>
    /\ IsIntText(SubSeq(t, 1, Len(t) - 2))
IsNumText(t) == IsIntText(t) \/ IsFloatText(t)

\* str(int(t)): leading zeros are gone
RECURSIVE IntCanon(_)
IntCanon(t) == IF Len(t) > 1 /\ Head(t) = "0" THEN IntCanon(Tail(t)) ELSE t

\* the dtype read_csv infers for a column of cell texts
ColumnKind(cells) ==
    LET idx == 1..Len(cells)
        vals == {i \in idx : ~IsNA(cells[i])}
    IN  IF vals = {} \/ \E i \in vals : ~IsNumText(cells[i]) THEN "object"
        ELSE IF vals = idx /\ \A i \in vals : IsIntText(cells[i]) THEN "int64"
        ELSE "float64"

\* the text to_csv writes for a cell read under that dtype
RewriteCell(kind, t) ==
    IF IsNA(t) THEN <<>>
    ELSE CASE kind = "int64" -> IntCanon(t)
           [] kind = "float64" ->
                IF IsIntText(t) THEN IntCanon(t) \o <<".", "0">>
                ELSE IntCanon(SubSeq(t, 1, Len(t) - 2)) \o <<".", "0">>
           [] OTHER -> t

\* pd.read_csv followed by to_csv on the rows of the existing file (details_url
\* is empty or a URL and timestamp is an ISO-8601 text: both are written back
\* as they were read)
RewriteRows(rows) ==
    LET kind(c) == ColumnKind([i \in 1..Len(rows) |-> rows[i][c]])
    IN  [i \in 1..Len(rows) |->
            [ index       |-> RewriteCell(kind("index"), rows[i].index),
              address     |-> RewriteCell(kind("address"), rows[i].address),
              balance     |-> RewriteCell(kind("balance"), rows[i].balance),
              private_key |-> RewriteCell(kind("private_key"), rows[i].private_key),
              details_url |-> rows[i].details_url,
              timestamp   |-> rows[i].timestamp ]]

\* pd.read_csv raises EmptyDataError on a file of zero bytes
ReadRaises(file) == file.exists /\ ~file.header

\* lines 182-189: the file a flush of `data` leaves when nothing fails
Merge(file, data) ==
    IF file.exists THEN DataFile(RewriteRows(file.rows) \o data) ELSE DataFile(data)

\* to_csv opens the file for writing (truncating it) and writes the header and
\* the rows in order: a write that does not complete leaves a prefix
PartialWrites(file, data) ==
    LET full == Merge(file, data).rows
    IN  {ZeroByteFile} \cup {DataFile(SubSeq(full, 1, k)) : k \in 0..(Len(full) - 1)}

\* the file after a flush that raised: the read raised, or the write did
FailedSave(file, data) ==
    IF ReadRaises(file) THEN {file} ELSE {file} \cup PartialWrites(file, data)

\* a mutant of SkipsSave: the buffer is not looked at
NeverSkips(data) == FALSE

\* line 178: if not self.scraped_data: return
SkipsSave(data) == data = <<>>

(***************************************************************************)
(* search_database                                                         *)
(***************************************************************************)
\* the texts of the URLs the fixtures' links resolve to
UrlText(u) ==
    CASE u = "" -> <<>>
      [] u = BASE_ORIGIN \o "/private-key/bitcoin/1" ->
           <<"h","t","t","p","s",":","/","/","p","r","i","v","a","t","e","k","e","y","f","i","n","d","e","r",".","i","o","/","p","r","i","v","a","t","e","-","k","e","y","/","b","i","t","c","o","i","n","/","1">>
      [] OTHER ->
           <<"h","t","t","p","s",":","/","/","e","x","a","m","p","l","e",".","o","r","g","/","k","/","3">>

\* pd.Timestamp.now().isoformat() of the logical time t, shortened to the "T"
\* that separates date and time and one digit
TimestampText(t) == <<"T", <<"0","1","2","3","4","5","6","7","8","9">>[(t % 10) + 1]>>

\* the columns of the file, in the order of line 164-171
Columns == <<"index", "address", "balance", "private_key", "details_url", "timestamp">>

\* the text of a cell as to_csv wrote it
CellText(row, c) ==
    CASE c = "details_url" -> UrlText(row.details_url)
      [] c = "timestamp" -> TimestampText(row.timestamp)
      [] OTHER -> row[c]

\* line 273, row.astype(str): the string form of the cell of column c in row i
\* of the frame read_csv gives for `rows`; a missing value reads as "nan"
StrForm(rows, i, c) ==
    LET kind == ColumnKind([k \in 1..Len(rows) |-> CellText(rows[k], c)])
        t == CellText(rows[i], c)
    IN  IF IsNA(t) THEN <<"n","a","n">> ELSE RewriteCell(kind, t)

\* re.compile raises on the keyword: an unbalanced parenthesis
RegexRaises(pat) ==
    Cardinality({j \in 1..Len(pat) : pat[j] = "("})
        # Cardinality({j \in 1..Len(pat) : pat[j] = ")"})

\* line 273, Series.str.contains(keyword, case=False): the keyword is a regular
\* expression (regex=True is the default) searched with re.IGNORECASE; of the
\* regular expressions, the ones made of literal characters and "."
RegexSearch(text, pat) ==
    \E i \in 0..(Len(text) - Len(pat)) :
        \A j \in 1..Len(pat) :
            pat[j] = "." \/ LowerChar(text[i + j]) = LowerChar(pat[j])

\* line 273: the rows of the mask
Mask(rows, kw) ==
    {i \in 1..Len(rows) : \E k \in 1..Len(Columns) : RegexSearch(StrForm(rows, i, Columns[k]), kw)}

\* the positions of a set of rows, in increasing order
RECURSIVE InOrder(_)
InOrder(S) ==
    IF S = {} THEN <<>>
    ELSE LET m == CHOOSE x \in S : \A y \in S : x <= y
         IN  <<m>> \o InOrder(S \ {m})

\* lines 266-297: the rows search_database returns, as positions in the file.
\* No file: []. read_csv or the regular expression raises: caught at line
\* 295, [].
SearchDatabase(file, kw) ==
    IF ~file.exists \/ ReadRaises(file) THEN <<>>
    ELSE IF file.rows # <<>> /\ RegexRaises(kw) THEN <<>>
    ELSE InOrder(Mask(file.rows, kw))

\* the keywords tried
Keywords ==
    { <<"k","x","7">>, <<"5","J","W">>, <<"K",".","7">>, <<"z","z","z">>,
      <<"b","c","1","q">>, <<"n","a","n">>, <<"e","x","a","m","p","l","e">>, <<"(">> }
NoKeyword == <<>>

\* the datasets searched: no file, an empty file, and the files a flush wrote
\* from up to MaxSearchRows of these records
SearchRecords == {MakeRecord(RowA, 1), MakeRecord(RowB, 1), MakeRecord(RowC, 2)}
SearchFiles ==
    {NoFile, ZeroByteFile}
        \cup {DataFile(rows) : rows \in UNION {[1..n -> SearchRecords] : n \in 0..MaxSearchRows}}

(***************************************************************************)
(* _rotate_proxy and the proxy of an attempt                               *)
(***************************************************************************)
\* a mutant of RotateProxy: two positions at a time
RotateTwice(idx, pool) == IF pool = <<>> THEN idx ELSE (idx + 2) % Len(pool)

\* lines 88-91: the position after _rotate_proxy (an empty pool is falsy)
RotateProxy(idx, pool) == IF pool = <<>> THEN idx ELSE (idx + 1) % Len(pool)

\* line 100
Rotates(mode) == mode = "auto"

\* lines 99-106: the proxy session.get is given, "" when the proxies dict is
\* empty; idx is the position after the rotation
ProxyFor(mode, pool, idx) ==
    IF Rotates(mode) THEN (IF pool = <<>> THEN "" ELSE pool[idx + 1])
    ELSE IF mode \notin {"unset", "", "none"} THEN mode
    ELSE ""

\* the last n elements of s
LastN(s, n) == IF Len(s) <= n THEN s ELSE SubSeq(s, Len(s) - n + 1, Len(s))

\* the values of --proxy tried; "unset" is the constructor's default None
ProxyModes == {"auto", "none", "unset", "http://10.0.0.1:8080"}

\* the pools tried: the one of the source, pools the user filled in, none
Pools == {PROXY_LIST, <<"http://p1", "http://p2", "http://p3">>, <<"http://p1">>, <<>>}

(***************************************************************************)
(* State                                                                   *)
(***************************************************************************)
VARIABLES
    max_pages,          \* configuration: None or the page-count limit
    proxy,              \* configuration: "auto", "none", "unset" (None) or a proxy URL
    proxies,            \* the proxy pool
    proxy_index,        \* the position in the pool
    picked,             \* history: the positions the last attempts took, newest last
    sent,               \* the proxy the last GET was given, "" for none
    test_mode,          \* configuration
    output_file,        \* the persistent file
    scraped_data,       \* the in-memory buffer
    session_open,       \* the HTTP session is not closed yet
    pc,                 \* where scrape_database, or search_database, is
    keyword,            \* the keyword of search_database
    found,              \* the rows search_database returned
    page,
    total_records,
    consecutive_empty,
    attempt,            \* _request_with_retry's loop variable
    response,           \* the response _request_with_retry returned (a body's name)
    page_data,          \* what _parse_page returned for the page
    \* history, for stating the properties
    file0,              \* the persistent file when the run started
    produced,           \* every record added to the buffer, in order
    parsed,             \* number of pages _parse_page returned for
    requested,          \* highest page number a GET was issued for
    fetched_valid,      \* valid rows on the pages _request_with_retry returned
    gets,               \* GETs issued for the current page
    outcome,            \* what the last GET gave: "error" or a body's name
    stop_reason,        \* why the page loop was left
    save_result,        \* how the last call of _save_progress ended
    io_failed,          \* a flush raised a read/write error
    interrupted,        \* a KeyboardInterrupt arrived
    log                 \* the cleanup steps done, in order

search == <<keyword, found>>
\* the arguments, and what scrape_database never changes
config == <<max_pages, test_mode, file0, search, proxy, proxies>>
rotation == <<proxy_index, picked, sent>>
store == <<output_file, scraped_data, save_result, io_failed>>
\* the locals of _request_with_retry, and those of the page loop
retry == <<attempt, outcome, gets>>
locals == <<retry, response, page_data>>
counts == <<total_records, consecutive_empty, produced, parsed, requested,
            fetched_valid>>
vars == <<config, rotation, store, locals, counts, session_open, pc, page, stop_reason,
          interrupted, log>>

\* the records a previous run left in the file (written by one flush, so the
\* cells are as the page showed them)
OldRow(i) == MakeRecord(IF i % 2 = 1 THEN RowB ELSE RowA, 0)
InitialFiles ==
    {NoFile, ZeroByteFile}
        \cup {DataFile([i \in 1..m |-> OldRow(i)]) : m \in 0..MaxExisting}

\* lines 46-54 and 202-204: what every run starts with
Fresh ==
    /\ proxy_index = 0
    /\ picked = <<>>
    /\ sent = ""
    /\ found = <<>>
    /\ file0 = output_file
    /\ scraped_data = <<>>
    /\ session_open = TRUE
    /\ page = 1
    /\ total_records = 0
    /\ consecutive_empty = 0
    /\ attempt = 0
    /\ response = NoResponse
    /\ page_data = <<>>
    /\ produced = <<>>
    /\ parsed = 0
    /\ requested = 0
    /\ fetched_valid = 0
    /\ gets = 0
    /\ outcome = "none"
    /\ stop_reason = "none"
    /\ save_result = "none"
    /\ io_failed = FALSE
    /\ interrupted = FALSE
    /\ log = <<>>

\* lines 316-319: --search KEYWORD runs search_database
SearchStart ==
    /\ pc = "search"
    /\ max_pages = None
    /\ test_mode = FALSE
    /\ output_file \in SearchFiles
    /\ keyword \in Keywords

\* lines 316-319: --scrape runs scrape_database; here with --proxy none
Init ==
    /\ \/ /\ pc = "loop"
          /\ max_pages \in {None} \cup (0..MaxLimit)
          /\ test_mode \in BOOLEAN
          /\ output_file \in InitialFiles
          /\ keyword = NoKeyword
       \/ SearchStart
    /\ proxy = "none"
    /\ proxies = PROXY_LIST
    /\ Fresh

(***************************************************************************)
(* scrape_database                                                         *)
(***************************************************************************)
LoopPcs == {"loop", "sleep", "request", "backoff", "parse", "save", "next"}

\* a mutant of AfterLoop: an exception skips the finally clause
AfterLoopUnlessException(reason) == IF reason = "exception" THEN "done" ELSE "finally"

\* lines 251-256: break, KeyboardInterrupt and Exception all reach the finally clause
AfterLoop(reason) == "finally"

\* The page loop is left; the frame of _request_with_retry, if there is one,
\* is gone.
Stop(reason) ==
    /\ pc' = AfterLoop(reason)
    /\ stop_reason' = reason
    /\ attempt' = 0
    /\ outcome' = "none"
    /\ gets' = 0

\* Python's truth value of self.max_pages
Truthy(v) == v # None /\ v # 0

\* a mutant of LimitReached: the limit is ignored
LimitIgnored(mp, p) == FALSE

\* line 208
LimitReached(mp, p) == Truthy(mp) /\ p > mp

\* a mutant of TestCapReached: test mode is ignored
TestCapIgnored(tm, p) == FALSE

\* line 211
TestCapReached(tm, p) == tm /\ p > TEST_MODE_PAGES

\* lines 207-213, up to the sleep of line 218
LoopTop ==
    /\ pc = "loop"
    /\ IF LimitReached(max_pages, page) THEN Stop("max_pages")
       ELSE IF TestCapReached(test_mode, page) THEN Stop("test_mode")
       ELSE pc' = "sleep" /\ UNCHANGED <<stop_reason, retry>>
    /\ UNCHANGED <<config, rotation, store, response, page_data, counts, session_open, page,
                   interrupted, log>>

\* lines 217-220: the delay is over, _request_with_retry starts
Sleep ==
    /\ pc = "sleep"
    /\ pc' = "request"
    /\ attempt' = 0
    /\ gets' = 0
    /\ outcome' = "none"
    /\ UNCHANGED <<config, rotation, store, response, page_data, counts, session_open,
                   page, stop_reason, interrupted, log>>

\* lines 99-106: the attempt resolves its proxy
TakeProxy ==
    /\ proxy_index' = IF Rotates(proxy) THEN RotateProxy(proxy_index, proxies)
                      ELSE proxy_index
    /\ picked' = IF Rotates(proxy) /\ proxies # <<>>
                 THEN LastN(Append(picked, proxy_index'), Len(proxies))
                 ELSE picked
    /\ sent' = ProxyFor(proxy, proxies, proxy_index')

\* line 97: the user-agent pool raises (not a RequestException, not a ValueError):
\* the exception leaves _request_with_retry and is caught at line 253
UserAgentRaises ==
    /\ pc = "request"
    /\ Stop("exception")
    /\ UNCHANGED <<config, rotation, store, response, page_data, counts, session_open, page,
                   interrupted, log>>

\* lines 108-114: the GET raises (connection, timeout, proxy, HTTP status)
RequestFails ==
    /\ pc = "request"
    /\ gets' = gets + 1
    /\ requested' = page
    /\ outcome' = "error"
    /\ pc' = "backoff"
    /\ TakeProxy
    /\ UNCHANGED <<config, store, attempt, response, page_data, total_records,
                   consecutive_empty, produced, parsed, fetched_valid, session_open,
                   page, stop_reason, interrupted, log>>

\* lines 108-126: the GET completes with body b; an accepted body is returned
\* to line 220
RequestBody(b) ==
    /\ pc = "request"
    /\ gets' = gets + 1
    /\ requested' = page
    /\ outcome' = b
    /\ IF b \in AcceptedBodies
       THEN /\ response' = b /\ pc' = "parse" /\ attempt' = 0
            /\ fetched_valid' = fetched_valid + ValidRowCounts[b]
       ELSE pc' = "backoff" /\ UNCHANGED <<response, attempt, fetched_valid>>
    /\ TakeProxy
    /\ UNCHANGED <<config, store, page_data, total_records, consecutive_empty,
                   produced, parsed, session_open, page, stop_reason, interrupted, log>>

\* a mutant of GivesUp: one attempt fewer
GivesUpEarly(att) == att + 1 >= RETRY_LIMIT - 1

\* line 95: range(RETRY_LIMIT) is exhausted after this attempt
GivesUp(att) == att + 1 >= RETRY_LIMIT

\* lines 131-134 and 221-223: the backoff sleep is over
Backoff ==
    /\ pc = "backoff"
    /\ IF GivesUp(attempt)
       THEN Stop("unavailable")
       ELSE /\ pc' = "request"
            /\ attempt' = attempt + 1
            /\ UNCHANGED <<stop_reason, outcome, gets>>
    /\ UNCHANGED <<config, rotation, store, response, page_data, counts, session_open, page,
                   interrupted, log>>

\* a mutant of EmptyStop: one more empty page is tolerated
EmptyStopLate(n) == n > EMPTY_LIMIT

\* line 228
EmptyStop(n) == n >= EMPTY_LIMIT

\* a mutant of SaveDue: never
SaveNeverDue(p) == FALSE

\* line 236
SaveDue(p) == p % SAVE_INTERVAL = 0

\* lines 225-236
Parse ==
    /\ pc = "parse"
    /\ LET data == PageRecords[response][page]
           after == IF SaveDue(page) THEN "save" ELSE "next"
           go == pc' = after /\ UNCHANGED <<stop_reason, retry>>
       IN  IF response \in RaisingBodies
           THEN /\ Stop("exception")
                /\ UNCHANGED <<page_data, scraped_data, total_records,
                               consecutive_empty, produced, parsed>>
           ELSE /\ page_data' = data
                /\ parsed' = parsed + 1
                /\ IF data = <<>>
                   THEN /\ consecutive_empty' = consecutive_empty + 1
                        /\ IF EmptyStop(consecutive_empty + 1) THEN Stop("empty") ELSE go
                        /\ UNCHANGED <<scraped_data, total_records, produced>>
                   ELSE /\ consecutive_empty' = 0
                        /\ scraped_data' = scraped_data \o data
                        /\ total_records' = total_records + Len(data)
                        /\ produced' = produced \o data
                        /\ go
    /\ UNCHANGED <<config, rotation, output_file, save_result, io_failed, response, requested,
                   fetched_valid, session_open, page, interrupted, log>>

\* lines 177-196: _save_progress runs to its end
SaveProgress ==
    IF SkipsSave(scraped_data)
    THEN /\ save_result' = "noop"
         /\ UNCHANGED <<output_file, scraped_data, io_failed>>
    ELSE /\ scraped_data' = <<>>
         /\ \/ /\ ~ReadRaises(output_file)
               /\ output_file' = Merge(output_file, scraped_data)
               /\ save_result' = "ok"
               /\ UNCHANGED io_failed
            \/ /\ ReadRaises(output_file)
               /\ output_file' = output_file
               /\ save_result' = "unreadable"
               /\ io_failed' = TRUE
            \/ /\ ~ReadRaises(output_file)
               /\ output_file' \in FailedSave(output_file, scraped_data)
               /\ save_result' = "error"
               /\ io_failed' = TRUE

\* the ways a call of _save_progress can end with the read or the write raising
SaveErrors == {"unreadable", "error"}

\* a mutant of SaveCatches: _save_progress has no except clause
SaveCatchesNothing(result) == FALSE

\* line 193: `except Exception` catches what read_csv and to_csv raise
\* (EmptyDataError, OSError); KeyboardInterrupt is no Exception
SaveCatches(result) == result # "interrupt"

\* the call of _save_progress that this step makes raises to its caller
SaveRaises == save_result' \in SaveErrors /\ ~SaveCatches(save_result')

\* line 237
PeriodicSave ==
    /\ pc = "save"
    /\ SaveProgress
    /\ IF SaveRaises
       THEN Stop("exception")
       ELSE pc' = "next" /\ UNCHANGED <<stop_reason, retry>>
    /\ UNCHANGED <<config, rotation, response, page_data, counts, session_open, page,
                   interrupted, log>>

\* lines 239-249
NextCheck ==
    /\ pc = "next"
    /\ IF ~Bodies[response].next
       THEN Stop("no_next") /\ UNCHANGED page
       ELSE /\ page < MaxPage
            /\ page' = page + 1
            /\ pc' = "loop"
            /\ UNCHANGED <<stop_reason, retry>>
    /\ UNCHANGED <<config, rotation, store, response, page_data, counts, session_open,
                   interrupted, log>>

\* line 256
FinalSave ==
    /\ pc = "finally"
    /\ SaveProgress
    /\ pc' = IF SaveRaises THEN "raised" ELSE "close"
    /\ log' = Append(log, "flush")
    /\ UNCHANGED <<config, rotation, locals, counts, session_open, page, stop_reason, interrupted>>

\* lines 257-260
Close ==
    /\ pc = "close"
    /\ session_open' = FALSE
    /\ log' = Append(log, "close")
    /\ pc' = "done"
    /\ UNCHANGED <<config, rotation, store, locals, counts, page, stop_reason, interrupted>>

\* KeyboardInterrupt anywhere in the try block of lines 205-249, outside the
\* try block of _save_progress: caught at line 251. An attempt it cuts short
\* has resolved its proxy (the interrupt came in session.get) or has not.
Interrupt ==
    /\ pc \in LoopPcs
    /\ Stop("interrupt")
    /\ interrupted' = TRUE
    /\ \/ UNCHANGED rotation
       \/ pc = "request" /\ TakeProxy
    /\ UNCHANGED <<config, store, response, page_data, counts, session_open, page, log>>

\* KeyboardInterrupt inside the try block of the periodic _save_progress (lines
\* 181-192): it is no Exception, so line 193 does not catch it, line 196 clears
\* the buffer, and it is caught at line 251. The file is as it was, partly
\* written, or completely written.
InterruptSave ==
    /\ pc = "save"
    /\ ~SkipsSave(scraped_data)
    /\ scraped_data' = <<>>
    /\ output_file' \in
         FailedSave(output_file, scraped_data)
            \cup (IF ReadRaises(output_file) THEN {}
                  ELSE {Merge(output_file, scraped_data)})
    /\ save_result' = "interrupt"
    /\ interrupted' = TRUE
    /\ Stop("interrupt")
    /\ UNCHANGED <<config, rotation, io_failed, response, page_data, counts, session_open,
                   page, log>>

\* lines 262-297
Search ==
    /\ pc = "search"
    /\ found' = SearchDatabase(output_file, keyword)
    /\ pc' = "searched"
    /\ UNCHANGED <<max_pages, test_mode, file0, keyword, proxy, proxies, rotation,
                   store, locals, counts, session_open, page, stop_reason,
                   interrupted, log>>

Next ==
    \/ LoopTop
    \/ Sleep
    \/ UserAgentRaises
    \/ RequestFails
    \/ \E b \in BodyIds : RequestBody(b)
    \/ Backoff
    \/ Parse
    \/ PeriodicSave
    \/ NextCheck
    \/ FinalSave
    \/ Close
    \/ Interrupt
    \/ InterruptSave
    \/ Search

Spec == Init /\ [][Next]_vars

\* the runs with every value of --proxy and every pool, from no file and
\* with no limit
ProxyInit ==
    /\ \/ /\ pc = "loop"
          /\ max_pages = None
          /\ test_mode = FALSE
          /\ output_file = NoFile
          /\ keyword = NoKeyword
       \/ SearchStart
    /\ proxy \in ProxyModes
    /\ proxies \in Pools
    /\ Fresh

ProxySpec == ProxyInit /\ [][Next]_vars

\* Every sleep, every fetch attempt, every parse, every flush and the close
\* complete: the code blocks in them and nowhere else. An interrupt may come
\* or not.  The steps exclude one another by pc, so one fairness condition on
\* their disjunction is fairness for each.
Step ==
    \/ LoopTop
    \/ Sleep
    \/ UserAgentRaises
    \/ RequestFails
    \/ \E b \in BodyIds : RequestBody(b)
    \/ Backoff
    \/ Parse
    \/ PeriodicSave
    \/ NextCheck
    \/ FinalSave
    \/ Close

\* lines 316-319: the runs of Init that start without a file or with one
\* read_csv cannot read
FairInit ==
    /\ \/ /\ pc = "loop"
          /\ max_pages \in {None} \cup (0..MaxLimit)
          /\ test_mode \in BOOLEAN
          /\ output_file \in {NoFile, ZeroByteFile}
          /\ keyword = NoKeyword
       \/ SearchStart
    /\ proxy = "none"
    /\ proxies = PROXY_LIST
    /\ Fresh

FairSpec == FairInit /\ [][Next]_vars /\ WF_vars(Step)

(***************************************************************************)
(* Vocabulary of the properties                                            *)
(***************************************************************************)
\* the step is a call of _save_progress that returned to its caller
Flushed == (pc = "save" /\ pc' = "next") \/ (pc = "finally" /\ pc' = "close")

\* the number a numeric cell text stands for, as a canonical integer text
NumKey(t) == IntCanon(IF IsIntText(t) THEN t ELSE SubSeq(t, 1, Len(t) - 2))

\* two cell texts hold the same value: the same text, the same number written
\* differently, or a missing value
SameValue(x, y) ==
    \/ x = y
    \/ IsNA(x) /\ IsNA(y)
    \/ IsNumText(x) /\ IsNumText(y) /\ NumKey(x) = NumKey(y)

\* two rows are the same record
SameRow(r, q) ==
    /\ SameValue(r.index, q.index)
    /\ r.address = q.address
    /\ SameValue(r.balance, q.balance)
    /\ SameValue(r.private_key, q.private_key)
    /\ r.details_url = q.details_url
    /\ r.timestamp = q.timestamp

\* the step is a call of _save_progress, periodic or final, with records in
\* the buffer, in which the read or the write raised
FlushRaised ==
    /\ pc \in {"save", "finally"}
    /\ scraped_data # <<>>
    /\ interrupted' = interrupted
    /\ save_result' \in SaveErrors

\* every record of `want` is among `rows`
AllPresent(want, rows) ==
    \A j \in 1..Len(want) : \E i \in 1..Len(rows) : SameRow(rows[i], want[j])

\* `rows` is the rows `old` followed by the records `new`, in order
ExtendedBy(rows, old, new) ==
    /\ Len(rows) = Len(old) + Len(new)
    /\ \A i \in 1..Len(old) : SameRow(rows[i], old[i])
    /\ \A j \in 1..Len(new) : SameRow(rows[Len(old) + j], new[j])

\* needle occurs in hay when letter case is ignored
ContainsCI(hay, needle) ==
    \E i \in 0..(Len(hay) - Len(needle)) :
        \A j \in 1..Len(needle) : LowerChar(hay[i + j]) = LowerChar(needle[j])

\* the body shows no blocking indicator and holds the table marker
Deliverable(text) ==
    /\ \A ind \in BlockingIndicators : ~ContainsCI(text, ind)
    /\ Contains(text, TableMarker)

\* the bodies a fetch may deliver
DeliverableBodies == {b \in BodyIds : Deliverable(Bodies[b].text)}

\* the step is one GET of _request_with_retry that completed with a body
GotBody == pc = "request" /\ gets' = gets + 1 /\ outcome' \in BodyIds

\* the step is one fetch attempt of _request_with_retry that got its answer
Attempted == pc = "request" /\ gets' = gets + 1

\* the step ends a backoff sleep that no interrupt cut short
BackoffOver == pc = "backoff" /\ pc' # pc /\ interrupted' = interrupted

\* the data rows of body b that have at least five cells and a valid address
ValidRows(b) ==
    {i \in 1..Len(DataRows(b)) :
        /\ Len(DataRows(b)[i]) >= MIN_COLS
        /\ MatchAddress(Strip(DataRows(b)[i][2].text))}

\* data holds one record per valid row of body b, in the rows' order, and
\* nothing else
KeptExactlyValid(b, data) ==
    /\ Len(data) = Cardinality(ValidRows(b))
    /\ \A i \in ValidRows(b) :
          data[Cardinality({j \in ValidRows(b) : j <= i})].address
              = Strip(DataRows(b)[i][2].text)

\* records with capture time p: the records page p yielded
YieldOf(p) == Cardinality({j \in 1..Len(produced) : produced[j].timestamp = p})

\* page p is the third of three consecutive parsed pages that yielded nothing
ThirdEmpty(p) ==
    /\ p >= EMPTY_LIMIT
    /\ \A q \in (p - EMPTY_LIMIT + 1)..p : YieldOf(q) = 0

(***************************************************************************)
(* C1: merge correctness of _save_progress.  Whenever the operating system *)
(* fails no read or write, a flush of N >= 1 buffered records into a file  *)
(* that exists and holds M >= 0 rows leaves a file of exactly M + N rows,  *)
(* the M existing rows first and in their order, then the N buffered       *)
(* records in buffer order; with no file, the flush creates the file with  *)
(* exactly the N records in order.                                         *)
(***************************************************************************)
C1_MergeCorrect ==
    [][ (Flushed /\ scraped_data # <<>> /\ save_result' # "error") =>
          LET M == Len(output_file.rows)
              N == Len(scraped_data)
              new == output_file'.rows
          IN  /\ output_file'.exists
              /\ Len(new) = M + N
              /\ \A i \in 1..M : SameRow(new[i], output_file.rows[i])
              /\ \A j \in 1..N : SameRow(new[M + j], scraped_data[j]) ]_vars

(***************************************************************************)
(* C2: flushing an empty buffer is a no-op.  A call of _save_progress with *)
(* an empty buffer leaves the file as it is (not created, not rewritten),  *)
(* leaves the buffer empty and raises nothing; and every call leaves the   *)
(* buffer empty, so a flush that follows a flush changes nothing.          *)
(***************************************************************************)
C2_EmptyFlushNoOp ==
    /\ [][ (Flushed /\ scraped_data = <<>>) =>
             /\ output_file' = output_file
             /\ scraped_data' = <<>>
             /\ save_result' = "noop"
             /\ io_failed' = io_failed ]_vars
    /\ [][ Flushed => scraped_data' = <<>> ]_vars

\* the final flush found the buffer empty after the periodic flush had written
\* the file, and left the file alone
C2_Witness ==
    /\ pc = "close"
    /\ save_result = "noop"
    /\ produced # <<>>
    /\ output_file.exists
    /\ Len(output_file.rows) = Len(file0.rows) + Len(produced)

(***************************************************************************)
(* C3: cleanup on every exit path of scrape_database.  However the page    *)
(* loop is left (a limit, a fetch failure, three empty pages, no next      *)
(* page, an exception, an interrupt at any point of the loop), control     *)
(* reaches the finally clause; there the forced flush is done first and    *)
(* the session is closed second; scrape_database returns only after both,  *)
(* with the buffer empty.                                                  *)
(***************************************************************************)
C3_CleanupOnEveryExit ==
    /\ [][ (pc \in LoopPcs /\ pc' \notin LoopPcs) =>
             /\ pc' = "finally"
             /\ stop_reason' \in {"max_pages", "test_mode", "unavailable", "empty",
                                  "no_next", "exception", "interrupt"}
             /\ log' = <<>> /\ session_open' ]_vars
    /\ [][ (pc = "finally" /\ pc' # pc) =>
             pc' = "close" /\ log' = <<"flush">> /\ scraped_data' = <<>>
                /\ session_open' ]_vars
    /\ [][ (pc = "close" /\ pc' # pc) =>
             pc' = "done" /\ log' = <<"flush", "close">> /\ scraped_data' = <<>>
                /\ ~session_open' ]_vars
    /\ [](pc = "done" =>
             log = <<"flush", "close">> /\ scraped_data = <<>> /\ ~session_open
                /\ stop_reason # "none")
    /\ [](pc \in LoopPcs => log = <<>> /\ session_open /\ stop_reason = "none")

\* an interrupt ended the loop while records were buffered; the forced flush
\* wrote them and the session was closed after it
C3_Witness ==
    /\ pc = "done"
    /\ stop_reason = "interrupt"
    /\ save_result = "ok"
    /\ produced # <<>>
    /\ log = <<"flush", "close">>
    /\ ~session_open

(***************************************************************************)
(* C4: no buffered record is lost at termination.  When scrape_database    *)
(* has returned and no flush raised a read/write error, every record that  *)
(* was added to the buffer during the run is in the persistent file.       *)
(***************************************************************************)
C4_NoRecordLost ==
    (pc = "done" /\ ~io_failed) => AllPresent(produced, output_file.rows)

(***************************************************************************)
(* C5: the consecutive-empty stop condition.  The run stops for the reason *)
(* "three empty pages" only when the last three parsed pages each yielded  *)
(* no record, and then no further page is requested; and three parsed      *)
(* pages in a row without a record always stop the run at the third,       *)
(* whether or not that page has a next-page link.                          *)
(***************************************************************************)
C5_ThreeEmptyPagesStop ==
    /\ stop_reason = "empty" =>
          ThirdEmpty(parsed) /\ requested = parsed /\ pc \notin LoopPcs
    /\ \A p \in 1..parsed : ThirdEmpty(p) => (p = parsed /\ stop_reason = "empty")

\* a page with records, then three empty pages, the third with a next-page
\* link: the run stopped there
C5_Witness ==
    /\ pc = "done"
    /\ stop_reason = "empty"
    /\ produced # <<>>
    /\ parsed = EMPTY_LIMIT + 1
    /\ requested = parsed
    /\ response \in BodyIds
    /\ Bodies[response].next

(***************************************************************************)
(* C6: the page-count limit.  With a page-count limit L >= 0 configured,   *)
(* no page numbered above L is requested.                                  *)
(***************************************************************************)
C6_PageLimit == max_pages # None => requested <= max_pages

C9_NeverDelivered ==
    /\ [](response # NoResponse => response \in DeliverableBodies)
    /\ [][ (GotBody /\ outcome' \notin DeliverableBodies) =>
             pc' = "backoff" /\ response' = response ]_vars
    /\ [][ BackoffOver =>
             \/ gets < RETRY_LIMIT /\ pc' = "request" /\ attempt' = attempt + 1
             \/ gets = RETRY_LIMIT /\ stop_reason' = "unavailable" ]_vars

\* the fifth attempt gave a page that says "Access Denied": it is not returned
C9_Witness ==
    /\ pc = "backoff"
    /\ gets = RETRY_LIMIT
    /\ outcome = "denied"
    /\ response = NoResponse

(***************************************************************************)
(* C10: schema drift.  A page whose table or table marker is missing is    *)
(* treated as an empty page: a body without the marker never ends the run  *)
(* as "page unavailable", and a parsed body without the table yields no    *)
(* record, adds one to the count of consecutive empty pages, and stops the *)
(* run only as the third empty page in a row.                              *)
(***************************************************************************)
C10_DriftIsEmptyPage ==
    /\ [][ (pc = "backoff" /\ outcome \in BodyIds /\ ~HasMarker(Bodies[outcome].text)) =>
             stop_reason' # "unavailable" ]_vars
    /\ [][ (pc = "parse" /\ parsed' = parsed + 1 /\ ~Bodies[response].table) =>
             /\ page_data' = <<>>
             /\ consecutive_empty' = consecutive_empty + 1
             /\ stop_reason' = IF consecutive_empty' >= EMPTY_LIMIT THEN "empty" ELSE "none" ]_vars
(***************************************************************************)
(* C11: a persistence failure is contained.  When the read of the existing *)
(* file or the write of the combined file raises in a flush, periodic or   *)
(* final, nothing propagates out of _save_progress: the buffer is empty    *)
(* afterwards, the loop is not left, and the run takes its next step (the  *)
(* next-page test after a periodic flush, the session close after the      *)
(* final one) with its page and its counters as they were.                 *)
(***************************************************************************)
C11_PersistenceFailureContained ==
    [][ FlushRaised =>
          /\ scraped_data' = <<>>
          /\ pc' = IF pc = "save" THEN "next" ELSE "close"
          /\ stop_reason' = stop_reason
          /\ session_open'
          /\ UNCHANGED <<page, counts, response, page_data>> ]_vars

\* the periodic flush of page 3 raised and discarded the records of the pages
\* before; the run went on and has fetched and parsed the page after it
C11_Witness ==
    /\ pc = "next"
    /\ page = SAVE_INTERVAL + 1
    /\ parsed = page
    /\ save_result \in SaveErrors
    /\ io_failed
    /\ stop_reason = "none"
    /\ Len(produced) > Len(scraped_data)
(***************************************************************************)
(* C12: the run total equals the persisted records.  When scrape_database  *)
(* has returned after a run without persistence failure and without        *)
(* interrupt, the rows the run added to the file are as many as the total  *)
(* it returns, and that total is the sum, over the pages that were         *)
(* fetched, of their rows with a valid address; a page with records and    *)
(* without next-page link ends the run for the reason "no more pages" with *)
(* its records in the file.                                                *)
(***************************************************************************)
C12_RunTotalIsPersisted ==
    (pc = "done" /\ ~io_failed /\ ~interrupted) =>
        /\ Len(output_file.rows) = Len(file0.rows) + total_records
        /\ total_records = fetched_valid
        /\ (response # NoResponse /\ ~Bodies[response].next /\ parsed = page
                /\ page_data # <<>>) =>
               stop_reason = "no_next" /\ AllPresent(page_data, output_file.rows)
(***************************************************************************)
(* C13: search correctness.  For every keyword and every dataset, the rows *)
(* search_database returns are exactly the rows in which the string form   *)
(* of at least one column contains the keyword as a substring, letter case *)
(* ignored; with no dataset file the result is empty.                      *)
(***************************************************************************)
C13_SearchCorrect ==
    pc = "searched" =>
        /\ Range(found) =
              {i \in 1..Len(output_file.rows) :
                  \E k \in 1..Len(Columns) :
                      ContainsCI(StrForm(output_file.rows, i, Columns[k]), keyword)}
        /\ ~output_file.exists => found = <<>>
C15_PeriodicFlushAlways ==
    [][ (pc = "parse" /\ parsed' = parsed + 1 /\ page % SAVE_INTERVAL = 0) =>
          pc' = "save" ]_vars

(***************************************************************************)
(* C15, amended: every page that is fetched and parsed and whose number is *)
(* a multiple of the save interval is followed in the same iteration by    *)
(* the periodic flush, before the next-page test, unless the page is the   *)
(* third empty page in a row: then the loop is left before line 236, with  *)
(* an empty buffer, and the flush that follows is the final one.  A run    *)
(* that stops for want of a next page on such a page has flushed already.  *)
(***************************************************************************)
C15_PeriodicFlush ==
    /\ [][ (pc = "parse" /\ parsed' = parsed + 1 /\ page % SAVE_INTERVAL = 0) =>
             IF consecutive_empty' >= EMPTY_LIMIT
             THEN pc' = "finally" /\ stop_reason' = "empty" /\ scraped_data' = <<>>
             ELSE pc' = "save" /\ stop_reason' = "none" ]_vars
    /\ [][ (pc = "save" /\ pc' # pc /\ interrupted' = interrupted) =>
             /\ pc' = "next"
             /\ scraped_data' = <<>>
             /\ save_result' \in {"noop", "ok"} \cup SaveErrors ]_vars
    /\ [][ (pc = "parse" /\ pc' = "next") => page % SAVE_INTERVAL # 0 ]_vars
    /\ []((stop_reason = "no_next" /\ page % SAVE_INTERVAL = 0) => scraped_data = <<>>)

\* page 3 had records and no next-page link: the periodic flush wrote the
\* buffer before the run stopped for want of a next page
C15_Witness ==
    /\ pc = "finally"
    /\ stop_reason = "no_next"
    /\ page = SAVE_INTERVAL
    /\ page_data # <<>>
    /\ save_result = "ok"
    /\ scraped_data = <<>>
    /\ AllPresent(produced, output_file.rows)
(***************************************************************************)
(* C16: the bounded buffer.  In every state of a run the buffer holds      *)
(* records of at most 3 (the save interval) pages, all of them pages       *)
(* fetched after the last multiple-of-3 page before the current one, that  *)
(* is, since the last periodic flush; once the periodic flush of a page    *)
(* has run the buffer is empty; and when the run has stopped for three     *)
(* empty pages in a row the buffer is empty or holds only records of pages *)
(* after the last multiple-of-3 page.                                      *)
(***************************************************************************)
C16_BoundedBuffer ==
    LET pages == {scraped_data[i].timestamp : i \in 1..Len(scraped_data)}
        flushed == (page - 1) - ((page - 1) % SAVE_INTERVAL)
    IN  /\ Cardinality(pages) <= SAVE_INTERVAL
        /\ \A p \in pages : flushed < p /\ p <= page
        /\ (pc = "next" /\ page % SAVE_INTERVAL = 0) => scraped_data = <<>>
        /\ stop_reason = "empty" =>
              \/ scraped_data = <<>>
              \/ \A p \in pages : p > page - (page % SAVE_INTERVAL)

\* the buffer is at its fullest: records of three pages, just before the
\* periodic flush of page 3
C16_Witness ==
    /\ pc = "save"
    /\ page = SAVE_INTERVAL
    /\ {scraped_data[i].timestamp : i \in 1..Len(scraped_data)} = 1..SAVE_INTERVAL
(***************************************************************************)
(* C17: proxy rotation.  With --proxy auto and a pool of n >= 1 entries,   *)
(* every fetch attempt, retries included, moves the pool position forward  *)
(* by exactly one, from n - 1 back to 0, and is given the entry at the new *)
(* position; the position is always within 0..n-1, and any n attempts in a *)
(* row take every position exactly once.  With a fixed proxy, with "none"  *)
(* or with no proxy setting the position never changes.                    *)
(***************************************************************************)
C17_ProxyRotation ==
    /\ [][ (Attempted /\ proxy = "auto" /\ Len(proxies) >= 1) =>
             /\ proxy_index' = (IF proxy_index = Len(proxies) - 1 THEN 0
                                ELSE proxy_index + 1)
             /\ sent' = proxies[proxy_index' + 1] ]_vars
    /\ [][ (proxy_index' # proxy_index) => proxy = "auto" /\ pc = "request" ]_vars
    /\ [](Len(proxies) >= 1 => proxy_index \in 0..(Len(proxies) - 1))
    /\ []((proxy = "auto" /\ Len(picked) = Len(proxies)) =>
             Range(picked) = 0..(Len(proxies) - 1))
    /\ [](proxy # "auto" => proxy_index = 0 /\ picked = <<>>)
    /\ [][ (Attempted /\ proxy # "auto") =>
             sent' = (IF proxy \in {"none", "unset"} THEN "" ELSE proxy) ]_vars

\* rotation over a pool of three: more than three attempts were made, the
\* position has wrapped around, and the last three took each position once
C17_Witness ==
    /\ proxy = "auto"
    /\ Len(proxies) = 3
    /\ requested >= 2
    /\ picked = <<1, 2, 0>>
    /\ proxy_index = 0
    /\ sent = proxies[1]
(***************************************************************************)
(* C18: termination.  When every sleep, fetch attempt, parse and flush     *)
(* completes, a run of scrape_database with a page-count limit L >= 1 or   *)
(* in test mode reaches its end: the final flush done, then the session    *)
(* closed, after requesting no page above L (above 2 in test mode) and     *)
(* making at most 5 attempts per page.  A run with neither leaves the page *)
(* loop only for a fetch failure, three empty pages in a row, a page       *)
(* without next-page link, an exception or an interrupt.                   *)
(***************************************************************************)
C18_Termination ==
    /\ []((pc = "loop" /\ page = 1 /\ (Truthy(max_pages) \/ test_mode)) => <>(pc = "done"))
    /\ [](pc = "done" => log = <<"flush", "close">> /\ ~session_open)
    /\ [](Truthy(max_pages) => requested <= max_pages)
    /\ [](test_mode => requested <= TEST_MODE_PAGES)
    /\ [](gets <= RETRY_LIMIT)
    /\ []((~Truthy(max_pages) /\ ~test_mode /\ stop_reason # "none") =>
             stop_reason \in {"unavailable", "empty", "no_next", "exception", "interrupt"})

\* a run with limit 3 and no interrupt has fetched three pages and come to
\* its end by the limit
C18_Witness ==
    /\ pc = "done"
    /\ max_pages = 3
    /\ ~test_mode
    /\ stop_reason = "max_pages"
    /\ ~interrupted
    /\ requested = 3
    /\ page = 4
    /\ log = <<"flush", "close">>
====
